---- MODULE Spec2Model ----
(***************************************************************************)
(* Model of src/util.rs of bwt: XyzPubKey::from_str (decoding of           *)
(* xpub/ypub/zpub style extended public keys), XyzPubKey::matches_network, *)
(* parse_xyz_version and get_xpub_p2pkh_version.                           *)
(*                                                                         *)
(* from_str is modelled statement by statement: pc is the position inside  *)
(* the function, data/network/script_type/faux_xpub are its locals, result *)
(* is the returned Result.  trace records the statements that have run.    *)
(* The library calls (base58::from_check, base58::check_encode_slice,      *)
(* ExtendedPubKey::from_str) are modelled by their rust-bitcoin behaviour: *)
(* a string is characterised by what Base58Check decoding does with it.    *)
(***************************************************************************)
EXTENDS Integers, Sequences, FiniteSets, TLC

VARIABLES inp, pc, data, network, script_type, faux_xpub, result, trace,
          key, target, answer

vars == <<inp, pc, data, network, script_type, faux_xpub, result, trace,
          key, target, answer>>

----------------------------------------------------------------------------
(* Bounds of the input space *)

\* x coordinates of the public key range over 0..MaxX
MaxX == 3
\* bytes of the embedded parent fingerprint and the depth range over 0..MaxFp
MaxFp == 1
\* decoded lengths 0..MaxShort and KeyLen-MaxDelta..KeyLen+MaxDelta are tried
MaxShort == 4
MaxDelta == 1

\* the serialized length of an extended key (util.rs:25)
KeyLen == 78

----------------------------------------------------------------------------
(* Types *)

\* bitcoin::Network
Network == {"Bitcoin", "Testnet", "Regtest"}

\* crate::types::ScriptType
ScriptType == {"P2pkh", "P2wpkh", "P2shP2wpkh"}

\* the version prefixes of the match arms of parse_xyz_version
XPUB == <<4, 136, 178, 30>>    \* 04 88 B2 1E
ZPUB == <<4, 178, 71, 70>>     \* 04 B2 47 46
YPUB == <<4, 157, 124, 178>>   \* 04 9D 7C B2
TPUB == <<4, 53, 135, 207>>    \* 04 35 87 CF
VPUB == <<4, 95, 28, 246>>     \* 04 5F 1C F6
UPUB == <<4, 74, 82, 98>>      \* 04 4A 52 62

KnownVersions == {XPUB, ZPUB, YPUB, TPUB, VPUB, UPUB}

\* prefixes outside the table: xprv (04 88 AD E4), one byte off xpub,
\* one byte off tpub, all zero
OtherVersions == {<<4, 136, 173, 228>>, <<4, 136, 178, 31>>,
                  <<5, 53, 135, 207>>, <<0, 0, 0, 0>>}

----------------------------------------------------------------------------
(* Results *)

\* the value of an ExtendedPubKey / XyzPubKey that has not been built
NoXpub == [network |-> "None", depth |-> 0, parent_fingerprint |-> <<>>,
           child_number |-> [hardened |-> FALSE, index |-> 0],
           chain_code |-> <<>>, public_key |-> <<>>]

NoKey == [network |-> "None", script_type |-> "None", extended_pubkey |-> NoXpub]

Ok(v) == [ok |-> TRUE, val |-> v, tag |-> "Ok", len |-> 0, bytes |-> <<>>]

Err(t, l, b) == [ok |-> FALSE, val |-> NoKey, tag |-> t, len |-> l, bytes |-> b]

NoResult == Err("Pending", 0, <<>>)

----------------------------------------------------------------------------
(* Sequence helpers *)

\* &s[lo..hi] of Rust, 0-based and half open, for lo <= hi <= len
Slice(s, lo, hi) == [i \in 1..(hi - lo) |-> s[lo + i]]

Zeros(n) == [i \in 1..n |-> 0]

----------------------------------------------------------------------------
(* Inputs *)

\* the 74 bytes after the version: depth, parent fingerprint, child number,
\* chain code, and a 33 byte key <<parity, x>> with x a 32 byte big-endian
\* integer
Body(depth, fp, child, parity, x) ==
    <<depth>> \o <<fp, fp, fp, fp>> \o <<child, 0, 0, 0>> \o Zeros(32)
              \o <<parity>> \o Zeros(31) \o <<x>>

Bodies == { Body(d, f, c, par, x) : d \in {0, MaxFp}, f \in 0..MaxFp,
                                    c \in {0, 128}, par \in {2, 3, 4},
                                    x \in 0..MaxX }

Lengths == (0..MaxShort) \cup ((KeyLen - MaxDelta)..(KeyLen + MaxDelta))

\* the byte buffers a Base58Check string may carry
Payloads == { Slice(v \o b \o Zeros(MaxDelta), 0, l) :
                 v \in KnownVersions \cup OtherVersions, b \in Bodies,
                 l \in Lengths }

\* A string, by what Base58Check decoding finds in it: a character outside
\* the alphabet, fewer than 4 decoded bytes, a wrong checksum, or a payload.
Strings == [kind : {"ok", "bad_checksum", "bad_byte"}, payload : Payloads]
             \cup [kind : {"too_short"}, payload : {<<>>}]

----------------------------------------------------------------------------
(* rust-bitcoin primitives *)

\* base58::from_check
from_check(s) ==
    IF s.kind = "bad_byte" THEN Err("BadByte", 0, <<>>)
    ELSE IF s.kind = "too_short" THEN Err("TooShort", Len(s.payload), <<>>)
    ELSE IF s.kind = "bad_checksum" THEN Err("BadChecksum", 0, <<>>)
    ELSE Ok(s.payload)

\* base58::check_encode_slice
check_encode_slice(d) == [kind |-> "ok", payload |-> d]

\* x coordinates below 8 with x^3 + 7 a square modulo the secp256k1 prime
OnCurveX == {1, 2, 3, 4, 6}

\* PublicKey::from_slice on the 33 bytes of a compressed key
PublicKey_from_slice(k) ==
    IF k[1] \in {2, 3} /\ Slice(k, 1, 32) = Zeros(31) /\ k[33] \in OnCurveX
    THEN Ok(k)
    ELSE Err("Other", 0, <<>>)

\* ChildNumber::from on the big-endian u32 of 4 bytes: bit 31 is the hardened
\* flag, the low 31 bits are the index
ChildNumber_from(b) ==
    [hardened |-> b[1] >= 128,
     index |-> (((b[1] % 128) * 256 + b[2]) * 256 + b[3]) * 256 + b[4]]

\* the fields of ExtendedPubKey read from a 78 byte buffer
DecodeFields(d, net) ==
    [network            |-> net,
     depth              |-> d[5],
     parent_fingerprint |-> Slice(d, 5, 9),
     child_number       |-> ChildNumber_from(Slice(d, 9, 13)),
     chain_code         |-> Slice(d, 13, 45),
     public_key         |-> Slice(d, 45, 78)]

\* ExtendedPubKey::from_str of rust-bitcoin: knows the p2pkh versions only
ExtendedPubKey_from_str(s) ==
    LET r == from_check(s) IN
    IF ~r.ok THEN r
    ELSE LET d == r.val IN
      IF Len(d) # KeyLen THEN Err("InvalidLength", Len(d), <<>>)
      ELSE IF Slice(d, 0, 4) \notin {XPUB, TPUB}
           THEN Err("InvalidVersion", 0, Slice(d, 0, 4))
      ELSE IF ~PublicKey_from_slice(Slice(d, 45, 78)).ok
           THEN PublicKey_from_slice(Slice(d, 45, 78))
      ELSE Ok(DecodeFields(d, IF Slice(d, 0, 4) = XPUB THEN "Bitcoin"
                                                        ELSE "Testnet"))

\* a decoder that reads the same layout and leaves the version bytes alone
ReferenceDecode(d) == DecodeFields(d, "None")

----------------------------------------------------------------------------
(* src/util.rs *)

\* variants of parse_xyz_version: two script types exchanged; the error
\* carrying the expected instead of the observed bytes; the testnet rows
\* reporting Regtest
parse_xyz_version_rows_swapped(version) ==
    IF version = XPUB THEN Ok(<<"Bitcoin", "P2pkh">>)
    ELSE IF version = ZPUB THEN Ok(<<"Bitcoin", "P2shP2wpkh">>)
    ELSE IF version = YPUB THEN Ok(<<"Bitcoin", "P2wpkh">>)
    ELSE IF version = TPUB THEN Ok(<<"Testnet", "P2pkh">>)
    ELSE IF version = VPUB THEN Ok(<<"Testnet", "P2wpkh">>)
    ELSE IF version = UPUB THEN Ok(<<"Testnet", "P2shP2wpkh">>)
    ELSE Err("InvalidVersion", 0, version)

parse_xyz_version_expected_bytes(version) ==
    IF version = XPUB THEN Ok(<<"Bitcoin", "P2pkh">>)
    ELSE IF version = ZPUB THEN Ok(<<"Bitcoin", "P2wpkh">>)
    ELSE IF version = YPUB THEN Ok(<<"Bitcoin", "P2shP2wpkh">>)
    ELSE IF version = TPUB THEN Ok(<<"Testnet", "P2pkh">>)
    ELSE IF version = VPUB THEN Ok(<<"Testnet", "P2wpkh">>)
    ELSE IF version = UPUB THEN Ok(<<"Testnet", "P2shP2wpkh">>)
    ELSE Err("InvalidVersion", 0, XPUB)

parse_xyz_version_regtest(version) ==
    IF version = XPUB THEN Ok(<<"Bitcoin", "P2pkh">>)
    ELSE IF version = ZPUB THEN Ok(<<"Bitcoin", "P2wpkh">>)
    ELSE IF version = YPUB THEN Ok(<<"Bitcoin", "P2shP2wpkh">>)
    ELSE IF version = TPUB THEN Ok(<<"Regtest", "P2pkh">>)
    ELSE IF version = VPUB THEN Ok(<<"Regtest", "P2wpkh">>)
    ELSE IF version = UPUB THEN Ok(<<"Regtest", "P2shP2wpkh">>)
    ELSE Err("InvalidVersion", 0, version)

\* parse_xyz_version
parse_xyz_version(version) ==
    IF version = XPUB THEN Ok(<<"Bitcoin", "P2pkh">>)
    ELSE IF version = ZPUB THEN Ok(<<"Bitcoin", "P2wpkh">>)
    ELSE IF version = YPUB THEN Ok(<<"Bitcoin", "P2shP2wpkh">>)
    ELSE IF version = TPUB THEN Ok(<<"Testnet", "P2pkh">>)
    ELSE IF version = VPUB THEN Ok(<<"Testnet", "P2wpkh">>)
    ELSE IF version = UPUB THEN Ok(<<"Testnet", "P2shP2wpkh">>)
    ELSE Err("InvalidVersion", 0, version)

\* variant of get_xpub_p2pkh_version: the two prefixes exchanged
get_xpub_p2pkh_version_exchanged(n) ==
    IF n = "Bitcoin" THEN TPUB ELSE XPUB

\* get_xpub_p2pkh_version
get_xpub_p2pkh_version(n) ==
    IF n = "Bitcoin" THEN XPUB ELSE TPUB

\* variants of the length test: longer buffers pass; every buffer passes
check_length_at_least(d) ==
    IF Len(d) < KeyLen THEN Err("InvalidLength", Len(d), <<>>) ELSE Ok(d)

check_length_absent(d) == Ok(d)

\* the length test of from_str
check_length(d) ==
    IF Len(d) # KeyLen THEN Err("InvalidLength", Len(d), <<>>) ELSE Ok(d)

\* variant of the splice: the prefix is inserted, nothing is removed
splice_insert(d, v) == v \o d

\* data.splice(0..4, v.iter().cloned())
splice(d, v) == v \o Slice(d, 4, Len(d))

\* variants of matches_network: testnet and regtest interchangeable both
\* ways; equality only
matches_network_symmetric(self, n) ==
    self.network = n \/ (self.network \in {"Testnet", "Regtest"}
                           /\ n \in {"Testnet", "Regtest"})

matches_network_equal(self, n) == self.network = n

\* XyzPubKey::matches_network
matches_network(self, n) ==
    self.network = n \/ (self.network = "Testnet" /\ n = "Regtest")

----------------------------------------------------------------------------
(* State machine *)

\* XyzPubKey values a caller can build directly: the fields are public
LiteralKeys ==
    [network : Network, script_type : ScriptType,
     extended_pubkey : { DecodeFields(XPUB \o b, "Bitcoin") : b \in Bodies }]

Locals0 ==
    /\ data = <<>>
    /\ network = "None"
    /\ script_type = "None"
    /\ faux_xpub = [kind |-> "ok", payload |-> <<>>]
    /\ result = NoResult
    /\ trace = <<>>
    /\ target = "None"
    /\ answer = FALSE

\* either from_str is about to be called on a string, or the caller holds a
\* XyzPubKey it has built itself
Init ==
    /\ Locals0
    /\ \/ inp \in Strings /\ pc = "start" /\ key = NoKey
       \/ inp = [kind |-> "too_short", payload |-> <<>>]
          /\ pc = "literal" /\ key \in LiteralKeys

\* return Err(e) out of from_str
Fail(e) ==
    /\ result' = e
    /\ pc' = "done"

\* let mut data = base58::from_check(inp)?;
Decode ==
    /\ pc = "start"
    /\ trace' = Append(trace, "decode")
    /\ LET r == from_check(inp) IN
         IF r.ok THEN /\ data' = r.val
                      /\ pc' = "length"
                      /\ UNCHANGED result
                 ELSE Fail(r) /\ UNCHANGED data
    /\ UNCHANGED <<inp, network, script_type, faux_xpub, key, target, answer>>

\* if data.len() != 78 { return Err(InvalidLength(data.len())) }
CheckLength ==
    /\ pc = "length"
    /\ trace' = Append(trace, "length")
    /\ LET r == check_length(data) IN
         IF r.ok THEN pc' = "version" /\ UNCHANGED result
                 ELSE Fail(r)
    /\ UNCHANGED <<inp, data, network, script_type, faux_xpub, key, target, answer>>

\* let version = &data[0..4];
\* let (network, script_type) = parse_xyz_version(version)?;
ParseVersion ==
    /\ pc = "version"
    /\ trace' = Append(trace, "version")
    /\ IF Len(data) < 4
       THEN /\ pc' = "panic"
            /\ UNCHANGED <<result, network, script_type>>
       ELSE LET r == parse_xyz_version(Slice(data, 0, 4)) IN
            IF r.ok THEN /\ network' = r.val[1]
                         /\ script_type' = r.val[2]
                         /\ pc' = "splice"
                         /\ UNCHANGED result
                    ELSE Fail(r) /\ UNCHANGED <<network, script_type>>
    /\ UNCHANGED <<inp, data, faux_xpub, key, target, answer>>

\* data.splice(0..4, get_xpub_p2pkh_version(network).iter().cloned());
Splice ==
    /\ pc = "splice"
    /\ trace' = Append(trace, "splice")
    /\ data' = splice(data, get_xpub_p2pkh_version(network))
    /\ pc' = "encode"
    /\ UNCHANGED <<inp, network, script_type, faux_xpub, result, key, target, answer>>

\* let faux_xpub = base58::check_encode_slice(&data);
Encode ==
    /\ pc = "encode"
    /\ trace' = Append(trace, "encode")
    /\ faux_xpub' = check_encode_slice(data)
    /\ pc' = "bip32"
    /\ UNCHANGED <<inp, data, network, script_type, result, key, target, answer>>

\* let extended_pubkey = ExtendedPubKey::from_str(&faux_xpub)?;
\* Ok(XyzPubKey { network, script_type, extended_pubkey })
Bip32 ==
    /\ pc = "bip32"
    /\ trace' = Append(trace, "bip32")
    /\ LET r == ExtendedPubKey_from_str(faux_xpub) IN
         IF r.ok
         THEN LET k == [network |-> network, script_type |-> script_type,
                        extended_pubkey |-> r.val]
              IN /\ result' = Ok(k)
                 /\ key' = k
                 /\ pc' = "done"
         ELSE Fail(r) /\ UNCHANGED key
    /\ UNCHANGED <<inp, data, network, script_type, faux_xpub, target, answer>>

\* key.matches_network(t), on a parsed key or on one the caller built
MatchesNetwork ==
    /\ \/ pc = "done" /\ result.ok
       \/ pc = "literal"
    /\ \E t \in Network :
         /\ target' = t
         /\ answer' = matches_network(key, t)
    /\ pc' = "matched"
    /\ UNCHANGED <<inp, data, network, script_type, faux_xpub, result, trace, key>>

Next ==
    \/ Decode
    \/ CheckLength
    \/ ParseVersion
    \/ Splice
    \/ Encode
    \/ Bip32
    \/ MatchesNetwork

Spec == Init /\ [][Next]_vars

----------------------------------------------------------------------------
(* Properties *)

\* the version table as the specification states it
VersionTable ==
    [v \in KnownVersions |->
       CASE v = XPUB -> <<"Bitcoin", "P2pkh">>
         [] v = ZPUB -> <<"Bitcoin", "P2wpkh">>
         [] v = YPUB -> <<"Bitcoin", "P2shP2wpkh">>
         [] v = TPUB -> <<"Testnet", "P2pkh">>
         [] v = VPUB -> <<"Testnet", "P2wpkh">>
         [] v = UPUB -> <<"Testnet", "P2shP2wpkh">>]

\* the canonical p2pkh prefix per network as the specification states it
CanonicalPrefix(n) == IF n = "Bitcoin" THEN XPUB ELSE TPUB

\* the order of the statements of from_str
StepOrder == <<"decode", "length", "version", "splice", "encode", "bip32">>

Returned == pc \in {"done", "matched"} /\ trace # <<>>

Decodes == from_check(inp).ok

OrigVersion == Slice(inp.payload, 0, 4)

\* inp decodes to 78 bytes
WellSized == Decodes /\ Len(inp.payload) = KeyLen

\* the BIP32 parser accepts the 78 decoded bytes once the prefix is canonical
ParserAccepts(n) ==
    ExtendedPubKey_from_str(
        [kind |-> "ok",
         payload |-> CanonicalPrefix(n) \o Slice(inp.payload, 4, KeyLen)]).ok

\* C1: an input that decodes to 78 bytes starting with one of the six table
\* prefixes, and whose rewritten form the BIP32 parser accepts, is parsed
\* successfully to the (network, script type) pair of the table.
C1_KnownPrefixDecodes ==
    (Returned /\ WellSized /\ OrigVersion \in KnownVersions
              /\ ParserAccepts(VersionTable[OrigVersion][1]))
    => /\ result.ok
       /\ <<result.val.network, result.val.script_type>>
             = VersionTable[OrigVersion]

C1_Witness ==
    /\ pc = "done" /\ result.ok
    /\ OrigVersion = YPUB
    /\ result.val.script_type = "P2shP2wpkh"

\* C2: an input that decodes to 78 bytes whose first 4 bytes are not in the
\* table fails with InvalidVersion carrying exactly those 4 bytes.
C2_UnknownPrefixRejected ==
    (Returned /\ WellSized /\ OrigVersion \notin KnownVersions)
    => /\ ~result.ok
       /\ result.tag = "InvalidVersion"
       /\ result.bytes = OrigVersion
       /\ Len(result.bytes) = 4

C2_Witness ==
    /\ pc = "done" /\ WellSized
    /\ result.tag = "InvalidVersion"
    /\ result.bytes = <<4, 136, 173, 228>>

\* C3: an input that decodes to L # 78 bytes fails with InvalidLength(L);
\* the version lookup, the rewrite and the BIP32 parser are not reached.
C3_WrongLengthRejected ==
    (Returned /\ Decodes /\ Len(inp.payload) # KeyLen)
    => /\ ~result.ok
       /\ result.tag = "InvalidLength"
       /\ result.len = Len(inp.payload)
       /\ trace = <<"decode", "length">>

C3_Witness ==
    /\ pc = "done" /\ Decodes
    /\ Len(inp.payload) = KeyLen + 1
    /\ OrigVersion = ZPUB
    /\ result.tag = "InvalidLength" /\ result.len = KeyLen + 1

\* the pairs (key network, target network) the specification says match
MatchTable ==
    {<<"Bitcoin", "Bitcoin">>, <<"Testnet", "Testnet">>,
     <<"Regtest", "Regtest">>, <<"Testnet", "Regtest">>}

\* C4: matches_network answers true exactly for equal networks and for a
\* Testnet key with a Regtest target.
C4_MatchesNetworkTable ==
    pc = "matched" => (answer <=> <<key.network, target>> \in MatchTable)

C4_Witness ==
    /\ pc = "matched"
    /\ key.network = "Regtest" /\ target = "Testnet" /\ ~answer

\* C5: the statements run in the fixed order, the error returned is that of
\* the first step that fails, nothing runs after it and no key is returned.
C5_FirstErrorWins ==
    /\ Len(trace) <= Len(StepOrder)
    /\ trace = Slice(StepOrder, 0, Len(trace))
    /\ Returned =>
         /\ ~Decodes => result = from_check(inp) /\ trace = <<"decode">>
         /\ (Decodes /\ Len(inp.payload) # KeyLen)
              => result.tag = "InvalidLength" /\ Len(trace) = 2
         /\ (WellSized /\ OrigVersion \notin KnownVersions)
              => result.tag = "InvalidVersion" /\ Len(trace) = 3
         /\ (WellSized /\ OrigVersion \in KnownVersions
                       /\ ~ParserAccepts(VersionTable[OrigVersion][1]))
              => result.tag = "Other" /\ Len(trace) = 6
         /\ ~result.ok => result.val = NoKey /\ key = NoKey /\ pc = "done"

C5_Witness ==
    /\ pc = "done"
    /\ result.tag = "BadChecksum"
    /\ Len(inp.payload) = KeyLen - 1
    /\ OrigVersion \notin KnownVersions

\* C6: the network of a successfully parsed key is Bitcoin or Testnet.
C6_NeverRegtest ==
    (Returned /\ result.ok) => result.val.network \in {"Bitcoin", "Testnet"}

C6_Witness ==
    /\ pc = "done" /\ result.ok
    /\ result.val.network = "Testnet"
    /\ OrigVersion = VPUB

\* C7: when the original prefix is not the p2pkh prefix of its network, the
\* fingerprint embedded in the returned key differs from the one a decoder
\* that keeps the version bytes reads from the same 78 bytes.
C7_FingerprintDiverges ==
    (Returned /\ result.ok
        /\ OrigVersion # get_xpub_p2pkh_version(result.val.network))
    => result.val.extended_pubkey.parent_fingerprint
          # ReferenceDecode(inp.payload).parent_fingerprint

\* C8: the buffer handed to the BIP32 parser has 78 bytes, starts with the
\* canonical prefix of the network found by the lookup, and equals the
\* decoded buffer from byte 4 on; the input string is never written.
C8_AtParser ==
    pc = "bip32" =>
      /\ faux_xpub.kind = "ok"
      /\ faux_xpub.payload = data
      /\ Len(data) = KeyLen
      /\ Slice(data, 0, 4) = CanonicalPrefix(VersionTable[OrigVersion][1])
      /\ Slice(data, 4, KeyLen) = Slice(from_check(inp).val, 4, KeyLen)

C8_RewriteFrame == [](C8_AtParser) /\ [][inp' = inp]_vars

C8_Witness ==
    /\ pc = "bip32"
    /\ OrigVersion = UPUB
    /\ Slice(faux_xpub.payload, 0, 4) = TPUB
    /\ inp.payload[6] = MaxFp

\* C9: the prefix of get_xpub_p2pkh_version is a P2pkh row of the table: for
\* Bitcoin and Testnet the lookup gives the network back, for Regtest it
\* gives Testnet; rewriting a rewritten buffer changes nothing.
C9_CanonicalPrefixRoundTrip ==
    /\ \A n \in {"Bitcoin", "Testnet"} :
          /\ parse_xyz_version(get_xpub_p2pkh_version(n)).ok
          /\ parse_xyz_version(get_xpub_p2pkh_version(n)).val = <<n, "P2pkh">>
    /\ parse_xyz_version(get_xpub_p2pkh_version("Regtest")).ok
    /\ parse_xyz_version(get_xpub_p2pkh_version("Regtest")).val
          = <<"Testnet", "P2pkh">>
    /\ pc \in {"encode", "bip32"} =>
          LET r == parse_xyz_version(Slice(data, 0, 4)) IN
          /\ r.ok
          /\ r.val = <<network, "P2pkh">>
          /\ splice(data, get_xpub_p2pkh_version(r.val[1])) = data

C9_Witness ==
    /\ pc = "encode"
    /\ network = "Testnet" /\ script_type = "P2wpkh"
    /\ Slice(data, 0, 4) = TPUB

\* C10: a parsed key matches exactly the targets that share its canonical
\* prefix, and so its own network.
C10_MatchesSamePrefix ==
    (Returned /\ result.ok) =>
      /\ \A t \in Network :
            matches_network(result.val, t)
               <=> (get_xpub_p2pkh_version(result.val.network)
                      = get_xpub_p2pkh_version(t))
      /\ matches_network(result.val, result.val.network)
      /\ pc = "matched" =>
            (answer <=> (get_xpub_p2pkh_version(key.network)
                           = get_xpub_p2pkh_version(target)))

C10_Witness ==
    /\ pc = "matched" /\ result.ok
    /\ key.network = "Testnet" /\ target = "Regtest" /\ answer

====
